---- MODULE Spec2Model ----
(***************************************************************************)
(* The tutoring session state machine of backend/core/revision_agents.py   *)
(* (DynamicRevisionAgent), the session collection of                       *)
(* backend/core/mongodb_client.py it persists to, and the two transports   *)
(* of backend/api/revision.py that call it.                                *)
(*                                                                         *)
(* One session id is modelled.  Quiz scores are integers in hundredths     *)
(* (0.6 is 60).  A Python dict is a record together with the set of keys   *)
(* it holds, so that a missing key (KeyError) is visible.  A topic is      *)
(* identified by the number of subtopics the content store holds for it.   *)
(* A Python str that the code searches (a user message given to the        *)
(* keyword scan, a reply given to the score pattern, an answer given to    *)
(* the keyword evaluator) is the sequence of its characters.  The language *)
(* model is the wrapper of backend/core/llm.py: a call either gives the    *)
(* model's reply or, when the model fails, the apology string.             *)
(***************************************************************************)
EXTENDS Integers, Sequences, FiniteSets, TLC

VARIABLES
    db,     \* the stored session document of the session id, or NoDoc
    prev,   \* the stored document before the last operation
    log,    \* what each call so far was given and what it returned
    last,   \* what the transport of the last operation answered
    inflight \* the handle_user_input calls under way, by caller

vars == <<db, prev, log, last, inflight>>

\* ----------------------------------------------------------------- bounds
MaxSubtopics == 3
MaxOps == 3
MaxIndex == 3
MaxLen == 2
MaxScenarioOps == 11

\* ------------------------------------------------------- program constants
PassMark == 60
MIN_CONVERSATIONS == 8
MAX_CONVERSATIONS == 50

Scores == {0, 50, 60, 80}
Topics == 0..MaxSubtopics
Intents == {"END", "PROCEED", "LEARN", "QUIZ", "FEEDBACK", "RETRY", "NEXT", "QUESTION"}

NoKey == "<no key>"
NoDoc == [absent |-> TRUE]
NoStats == [absent |-> TRUE]

\* ------------------------------------------------------------ list helpers
RECURSIVE Sum(_)
Sum(s) == IF s = <<>> THEN 0 ELSE Head(s) + Sum(Tail(s))

\* sum(xs) / len(xs) if xs else 0, kept exact as a fraction
Mean(s) == IF s = <<>> THEN [num |-> 0, den |-> 1] ELSE [num |-> Sum(s), den |-> Len(s)]

CountTrue(s) == Cardinality({i \in 1..Len(s) : s[i]})

Max2(a, b) == IF a >= b THEN a ELSE b
Min2(a, b) == IF a <= b THEN a ELSE b

\* for i in range(len(xs), n): xs.append(v)
PadTo(s, n, v) == s \o [i \in 1..Max2(0, n - Len(s)) |-> v]

\* xs[i] of a 0-based Python list: out of range raises IndexError
InRange(s, i) == i >= 0 /\ i < Len(s)
At(s, i) == s[i + 1]
SetAt(s, i, v) == [s EXCEPT ![i + 1] = v]

\* ------------------------------------------------------ the content store
\* The ordered subtopics of a topic: their numbers 1..N.
get_topic_subtopics(topic) == [i \in 1..topic |-> i]

\* -------------------------------------------------------------- config.py
\* round(a / b) for a >= 0 and b > 0: the nearest integer, a tie going to
\* the even one.
round_div(a, b) ==
    LET q == a \div b
        r == a % b
    IN IF 2 * r < b THEN q
       ELSE IF 2 * r > b THEN q + 1
       ELSE IF q % 2 = 0 THEN q ELSE q + 1

\* The limits with round() in place of int().
calculate_topic_limits_rounding(content_chunks) ==
    LET base_conversations == Max2(MIN_CONVERSATIONS, content_chunks * 2)
        max_conversations == Min2(MAX_CONVERSATIONS, base_conversations)
    IN [max_conversations |-> max_conversations,
        completion_threshold |-> Max2(6, round_div(max_conversations * 6, 10)),
        quiz_frequency |-> Max2(3, round_div(max_conversations, 5))]

\* int(x) of a non-negative x drops the fraction: int(m * 0.6) is
\* (m * 6) \div 10 and int(m / 5) is m \div 5.
calculate_topic_limits(content_chunks) ==
    LET base_conversations == Max2(MIN_CONVERSATIONS, content_chunks * 2)
        max_conversations == Min2(MAX_CONVERSATIONS, base_conversations)
    IN [max_conversations |-> max_conversations,
        completion_threshold |-> Max2(6, (max_conversations * 6) \div 10),
        quiz_frequency |-> Max2(3, max_conversations \div 5)]

\* ------------------------------------------------------- generated texts
\* A generated text is known by what it was generated for.
NoFraction == [num |-> 0, den |-> 1]
Text(kind, sub, warning, passed_count, overall) ==
    [kind |-> kind, sub |-> sub, warning |-> warning,
     passed_count |-> passed_count, overall |-> overall]
Plain(kind) == Text(kind, -1, FALSE, 0, NoFraction)
About(kind, sub) == Text(kind, sub, FALSE, 0, NoFraction)
NoText == Plain("none")

\* ---------------------------------------------------------------- strings
\* A Python str is the sequence of its characters.
UpperCase == <<"A", "B", "C", "D", "E", "F", "G", "H", "I", "J", "K", "L", "M", "N", "O", "P", "Q", "R", "S", "T", "U", "V", "W", "X", "Y", "Z">>
LowerCase == <<"a", "b", "c", "d", "e", "f", "g", "h", "i", "j", "k", "l", "m", "n", "o", "p", "q", "r", "s", "t", "u", "v", "w", "x", "y", "z">>
Digits == <<"0", "1", "2", "3", "4", "5", "6", "7", "8", "9">>

lower_char(c) ==
    IF \E i \in 1..Len(UpperCase) : UpperCase[i] = c
    THEN LowerCase[CHOOSE i \in 1..Len(UpperCase) : UpperCase[i] = c]
    ELSE c

\* s.lower()
lower(s) == [i \in 1..Len(s) |-> lower_char(s[i])]

\* x in s
Contains(s, x) ==
    \E i \in 0..(Len(s) - Len(x)) : SubSeq(s, i + 1, i + Len(x)) = x

\* any(x in s for x in xs)
AnyIn(s, xs) == \E k \in 1..Len(xs) : Contains(s, xs[k])

\* ------------------------------------------------------------------ llm.py
APOLOGY == <<"I", " ", "a", "p", "o", "l", "o", "g", "i", "z", "e", ",", " ", "b", "u", "t", " ", "I", "'", "m", " ", "h", "a", "v", "i", "n", "g", " ", "t", "r", "o", "u", "b", "l", "e", " ", "g", "e", "n", "e", "r", "a", "t", "i", "n", "g", " ", "a", " ", "r", "e", "s", "p", "o", "n", "s", "e", " ", "r", "i", "g", "h", "t", " ", "n", "o", "w", ".">>

\* GeminiLLMWrapper.generate_response: every exception of the model call is
\* caught and the apology string returned in place of the reply, so the
\* wrapper itself never raises.  apology says the text is that string.
generate_response(reachable, reply) ==
    [raised |-> FALSE, apology |-> ~reachable, text |-> reply]

\* The calls of one request that the model may fail to answer.
LlmCalls == {"classify", "evaluate", "generate"}

\* ----------------------------------------------------- mongodb_client.py
\* update_one({"session_id": ...}, {"$set": fields}): the named fields are
\* overwritten, the others kept; nothing happens when no document matches.
SetFields(d, fields) ==
    [k \in DOMAIN d |->
        IF k = "missing" THEN d.missing \ DOMAIN fields
        ELSE IF k \in DOMAIN fields THEN fields[k] ELSE d[k]]

\* The keys start_revision_session never sets, as a new document lacks them.
NeverSet ==
    [current_stage |-> NoKey, final_stats |-> NoStats, session_summary |-> NoText,
     missing |-> {}]

save_revision_session(d, session_data) ==
    IF d = NoDoc
    THEN [k \in DOMAIN session_data \cup DOMAIN NeverSet |->
            IF k \in DOMAIN session_data THEN session_data[k] ELSE NeverSet[k]]
    ELSE SetFields(d, session_data)

get_revision_session(d) == d

save_conversation_turn(d, turn_data) ==
    IF d = NoDoc THEN d
    ELSE [d EXCEPT !.conversation_history = Append(@, turn_data)]

update_session_progress(d, progress_data) ==
    IF d = NoDoc THEN d ELSE SetFields(d, progress_data)

\* ------------------------------------------------------ handler results
\* A handler's result dict: the keys it holds and their values.
Result(keys, response, stage, complete, sources, score) ==
    [keys |-> keys, response |-> response, current_stage |-> stage,
     is_session_complete |-> complete, sources |-> sources,
     performance_score |-> score, conversation_count |-> -1]

NoResult == Result({}, NoText, NoKey, FALSE, <<>>, -1)

\* What a handler leaves: the in-memory session_data, the stored document,
\* its result, and whether it raised instead of returning.
Returned(sd, d, result) == [sd |-> sd, db |-> d, result |-> result, raised |-> FALSE]
Raised(sd, d) == [sd |-> sd, db |-> d, result |-> NoResult, raised |-> TRUE]

\* ---------------------------------------------------- revision_agents.py
\* Text generation that hands back the prompt's text whatever the model does.
_generate_response_from_prompt_unfailing(failing, text) == text

\* _generate_response_from_prompt returns what the wrapper returns: the text
\* the model generates for the prompt, or the apology string when the call
\* fails.  failing is the set of calls of this request the model fails.
_generate_response_from_prompt(failing, text) ==
    LET response == generate_response("generate" \notin failing, text)
    IN IF response.apology THEN Plain("apology") ELSE response.text

\* warning_msg + response
WithWarning(warning, response) == [response EXCEPT !.warning = warning]

_complete_session(sd, d) ==
    LET quiz_scores == sd.quiz_scores
        avg_score == Mean(quiz_scores)
        concepts_learned == Len(sd.concepts_learned)
        summary == Text("summary", -1, FALSE, concepts_learned, avg_score)
        final_data ==
            [is_complete |-> TRUE,
             final_stats |->
                [total_interactions |-> sd.conversation_count,
                 concepts_learned |-> concepts_learned,
                 quizzes_taken |-> Len(quiz_scores),
                 average_performance |-> avg_score],
             session_summary |-> summary]
    IN Returned(sd, update_session_progress(d, final_data),
                Result({"response", "is_session_complete", "session_summary"},
                       summary, NoKey, TRUE, <<>>, -1))

_start_first_subtopic(sd, d, failing) ==
    LET subtopics == get_topic_subtopics(sd.topic)
    IN IF subtopics = <<>>
       THEN Returned(sd, d,
                Result({"response", "current_stage", "is_session_complete"},
                       Plain("no_subtopics"), "error", FALSE, <<>>, -1))
       ELSE Returned([sd EXCEPT !.current_subtopic_index = 0, !.stage = "learning"], d,
                Result({"response", "current_stage", "is_session_complete", "sources"},
                       _generate_response_from_prompt(failing, About("lesson", 0)),
                       "learning", FALSE, <<At(subtopics, 0)>>, -1))

\* The lesson that moves the session on to the next subtopic once taught.
_teach_current_subtopic_advancing(sd, d, failing) ==
    LET subtopics == get_topic_subtopics(sd.topic)
        current_index == sd.current_subtopic_index
    IN IF current_index >= Len(subtopics)
       THEN _complete_session(sd, d)
       ELSE Returned([sd EXCEPT !.current_subtopic_index = @ + 1], d,
                Result({"response", "current_stage", "is_session_complete", "sources"},
                       _generate_response_from_prompt(failing,
                                                      About("lesson", current_index)),
                       "learning", FALSE,
                       <<At(subtopics, current_index)>>, -1))

_teach_current_subtopic(sd, d, failing) ==
    LET subtopics == get_topic_subtopics(sd.topic)
        current_index == sd.current_subtopic_index
    IN IF current_index >= Len(subtopics)
       THEN _complete_session(sd, d)
       ELSE Returned(sd, d,
                Result({"response", "current_stage", "is_session_complete", "sources"},
                       _generate_response_from_prompt(failing,
                                                      About("lesson", current_index)),
                       "learning", FALSE,
                       <<At(subtopics, current_index)>>, -1))

_generate_subtopic_quiz(sd, d, failing) ==
    LET subtopics == get_topic_subtopics(sd.topic)
        current_index == sd.current_subtopic_index
    IN IF ~InRange(subtopics, current_index)
       THEN Raised(sd, d)
       ELSE Returned([sd EXCEPT !.stage = "quiz"], d,
                Result({"response", "current_stage", "is_session_complete"},
                       _generate_response_from_prompt(failing,
                                                      About("quiz", current_index)),
                       "quiz", FALSE, <<>>, -1))

\* The pass mark taken strictly.
Passed_strict(score) == score > PassMark

\* passed = score >= 0.6
Passed(score) == score >= PassMark

\* The lists padded one entry short.
needed_length_short(current_index) == current_index

\* needed_completion_length = needed_scores_length = current_index + 1
needed_length(current_index) == current_index + 1

IsDigit(c) == \E i \in 1..Len(Digits) : Digits[i] = c
DigitValue(c) == (CHOOSE i \in 1..Len(Digits) : Digits[i] = c) - 1

\* The number of digits of s from position i on (positions count from 1).
RECURSIVE DigitRun(_, _)
DigitRun(s, i) == IF i <= Len(s) /\ IsDigit(s[i]) THEN 1 + DigitRun(s, i + 1) ELSE 0

NoMatch == <<>>

\* The pattern with its one-character alternatives tried first.
MatchAt_short_first(s, i) ==
    IF s[i] = "0" \/ s[i] = "1" THEN <<s[i]>> ELSE NoMatch

\* What r'0\.\d+|1\.0|0|1' matches at position i: the alternatives are tried
\* in the order written, and \d+ takes every digit that follows.
MatchAt(s, i) ==
    IF s[i] = "0" /\ i + 1 <= Len(s) /\ s[i + 1] = "." /\ DigitRun(s, i + 2) > 0
    THEN SubSeq(s, i, i + 1 + DigitRun(s, i + 2))
    ELSE IF s[i] = "1" /\ i + 2 <= Len(s) /\ s[i + 1] = "." /\ s[i + 2] = "0"
    THEN SubSeq(s, i, i + 2)
    ELSE IF s[i] = "0" \/ s[i] = "1" THEN <<s[i]>>
    ELSE NoMatch

\* re.search(pattern, s): the match at the leftmost position that has one.
RECURSIVE re_search(_, _)
re_search(s, i) ==
    IF i > Len(s) THEN NoMatch
    ELSE IF MatchAt(s, i) # NoMatch THEN MatchAt(s, i)
    ELSE re_search(s, i + 1)

RECURSIVE Number(_)
Number(ds) ==
    IF ds = <<>> THEN 0
    ELSE 10 * Number(SubSeq(ds, 1, Len(ds) - 1)) + DigitValue(ds[Len(ds)])

RECURSIVE Pow10(_)
Pow10(k) == IF k = 0 THEN 1 ELSE 10 * Pow10(k - 1)

\* float(match.group()) of a match of the pattern, kept exact as a fraction
float(m) ==
    IF Len(m) = 1 THEN [num |-> DigitValue(m[1]), den |-> 1]
    ELSE LET decimals == SubSeq(m, 3, Len(m))
         IN [num |-> DigitValue(m[1]) * Pow10(Len(decimals)) + Number(decimals),
             den |-> Pow10(Len(decimals))]

Half == [num |-> 5, den |-> 10]

\* float(match.group()) if match else 0.5
quiz_score(response) ==
    LET match == re_search(response, 1)
    IN IF match # NoMatch THEN float(match) ELSE Half

\* The reply of the evaluating model that stands for a score in hundredths,
\* and the hundredths of a score.
ScoreReply(score) ==
    IF score = 100 THEN <<"1", ".", "0">>
    ELSE <<"0", ".", Digits[(score \div 10) + 1], Digits[(score % 10) + 1]>>
Hundredths(f) == (f.num * 100) \div f.den

\* The score and the number of model calls made for it.
evaluate_reply(reachable, reply) ==
    LET response == generate_response(reachable, reply)
    IN [score |-> IF response.raised THEN Half
                  ELSE quiz_score(IF response.apology THEN APOLOGY ELSE response.text),
        llm_calls |-> 1]

_evaluate_quiz_performance(user_answers) ==
    Hundredths(evaluate_reply("evaluate" \notin user_answers.failing,
                              ScoreReply(user_answers.score)).score)

\* The grading that never takes back a pass once recorded.
_evaluate_subtopic_quiz_keeping_pass(sd, d, user_answers) ==
    LET score == _evaluate_quiz_performance(user_answers)
        passed == Passed(score)
        current_index == sd.current_subtopic_index
        scores0 == IF "subtopic_quiz_scores" \in sd.missing
                   THEN <<>> ELSE sd.subtopic_quiz_scores
        status0 == IF "subtopic_completion_status" \in sd.missing
                   THEN <<>> ELSE sd.subtopic_completion_status
        status1 == PadTo(status0, needed_length(current_index), FALSE)
        scores1 == PadTo(scores0, needed_length(current_index), 0)
        padded == [sd EXCEPT !.missing = {}, !.subtopic_quiz_scores = scores1,
                             !.subtopic_completion_status = status1]
    IN IF ~InRange(scores1, current_index) \/ ~InRange(status1, current_index)
       THEN Raised(padded, d)
       ELSE LET scores2 == SetAt(scores1, current_index, score)
                status2 == SetAt(status1, current_index,
                                 passed \/ At(status1, current_index))
                written == [padded EXCEPT !.subtopic_quiz_scores = scores2,
                                          !.subtopic_completion_status = status2]
                d1 == update_session_progress(d,
                        [subtopic_quiz_scores |-> scores2,
                         subtopic_completion_status |-> status2])
            IN Returned([written EXCEPT !.stage = IF passed THEN "ready_next" ELSE "retry"],
                        d1,
                        Result({"response", "current_stage", "is_session_complete",
                                "performance_score"},
                               _generate_response_from_prompt(user_answers.failing,
                                   Text("feedback", current_index, ~passed, 0,
                                        NoFraction)),
                               IF passed THEN "passed" ELSE "failed", FALSE, <<>>, score))

_evaluate_subtopic_quiz(sd, d, user_answers) ==
    LET score == _evaluate_quiz_performance(user_answers)
        passed == Passed(score)
        current_index == sd.current_subtopic_index
        scores0 == IF "subtopic_quiz_scores" \in sd.missing
                   THEN <<>> ELSE sd.subtopic_quiz_scores
        status0 == IF "subtopic_completion_status" \in sd.missing
                   THEN <<>> ELSE sd.subtopic_completion_status
        status1 == PadTo(status0, needed_length(current_index), FALSE)
        scores1 == PadTo(scores0, needed_length(current_index), 0)
        padded == [sd EXCEPT !.missing = {}, !.subtopic_quiz_scores = scores1,
                             !.subtopic_completion_status = status1]
    IN IF ~InRange(scores1, current_index) \/ ~InRange(status1, current_index)
       THEN Raised(padded, d)
       ELSE LET scores2 == SetAt(scores1, current_index, score)
                status2 == SetAt(status1, current_index, passed)
                written == [padded EXCEPT !.subtopic_quiz_scores = scores2,
                                          !.subtopic_completion_status = status2]
                d1 == update_session_progress(d,
                        [subtopic_quiz_scores |-> scores2,
                         subtopic_completion_status |-> status2])
            IN Returned([written EXCEPT !.stage = IF passed THEN "ready_next" ELSE "retry"],
                        d1,
                        Result({"response", "current_stage", "is_session_complete",
                                "performance_score"},
                               _generate_response_from_prompt(user_answers.failing,
                                   Text("feedback", current_index, ~passed, 0,
                                        NoFraction)),
                               IF passed THEN "passed" ELSE "failed", FALSE, <<>>, score))

_retry_subtopic_explanation(sd, d, failing) ==
    LET subtopics == get_topic_subtopics(sd.topic)
        current_index == sd.current_subtopic_index
    IN IF ~InRange(subtopics, current_index)
       THEN Raised(sd, d)
       ELSE Returned(sd, d,
                Result({"response", "current_stage", "is_session_complete", "sources"},
                       _generate_response_from_prompt(failing,
                                                      About("retry_lesson", current_index)),
                       "retry_learning", FALSE,
                       <<At(subtopics, current_index)>>, -1))

\* The move that takes the notice from the status of the subtopic entered.
_move_to_next_subtopic_entered(sd, d, failing) ==
    LET current_index == sd.current_subtopic_index
        subtopics == get_topic_subtopics(sd.topic)
        status0 == IF "subtopic_completion_status" \in sd.missing
                   THEN <<>> ELSE sd.subtopic_completion_status
        completion_status == PadTo(status0, Len(subtopics), FALSE)
        sd1 == [sd EXCEPT !.missing = @ \ {"subtopic_completion_status"},
                          !.subtopic_completion_status = completion_status]
        next_index == current_index + 1
    IN IF next_index >= Len(subtopics)
       THEN LET quiz_scores == IF "subtopic_quiz_scores" \in sd.missing
                               THEN <<>> ELSE sd.subtopic_quiz_scores
                overall_score == Mean(quiz_scores)
                passed_count == CountTrue(completion_status)
                final_response ==
                    _generate_response_from_prompt(failing,
                        Text("final", -1, FALSE, passed_count, overall_score))
            IN Returned([sd1 EXCEPT !.is_complete = TRUE], d,
                    Result({"response", "current_stage", "is_session_complete",
                            "session_summary"},
                           final_response, "complete", TRUE, <<>>, -1))
       ELSE IF ~InRange(completion_status, current_index)
       THEN Raised(sd1, d)
       ELSE Returned([sd1 EXCEPT !.current_subtopic_index = next_index], d,
                Result({"response", "current_stage", "is_session_complete", "sources"},
                       WithWarning(~At(completion_status, next_index),
                           _generate_response_from_prompt(failing,
                                                          About("lesson", next_index))),
                       "learning", FALSE, <<At(subtopics, next_index)>>, -1))

_move_to_next_subtopic(sd, d, failing) ==
    LET current_index == sd.current_subtopic_index
        subtopics == get_topic_subtopics(sd.topic)
        status0 == IF "subtopic_completion_status" \in sd.missing
                   THEN <<>> ELSE sd.subtopic_completion_status
        completion_status == PadTo(status0, Len(subtopics), FALSE)
        sd1 == [sd EXCEPT !.missing = @ \ {"subtopic_completion_status"},
                          !.subtopic_completion_status = completion_status]
        next_index == current_index + 1
    IN IF next_index >= Len(subtopics)
       THEN LET quiz_scores == IF "subtopic_quiz_scores" \in sd.missing
                               THEN <<>> ELSE sd.subtopic_quiz_scores
                overall_score == Mean(quiz_scores)
                passed_count == CountTrue(completion_status)
                final_response ==
                    _generate_response_from_prompt(failing,
                        Text("final", -1, FALSE, passed_count, overall_score))
            IN Returned([sd1 EXCEPT !.is_complete = TRUE], d,
                    Result({"response", "current_stage", "is_session_complete",
                            "session_summary"},
                           final_response, "complete", TRUE, <<>>, -1))
       ELSE IF ~InRange(completion_status, current_index)
       THEN Raised(sd1, d)
       ELSE Returned([sd1 EXCEPT !.current_subtopic_index = next_index], d,
                Result({"response", "current_stage", "is_session_complete", "sources"},
                       WithWarning(~At(completion_status, current_index),
                           _generate_response_from_prompt(failing,
                                                          About("lesson", next_index))),
                       "learning", FALSE, <<At(subtopics, next_index)>>, -1))

_handle_general_question(sd, d, failing) ==
    LET subtopics == get_topic_subtopics(sd.topic)
        current_index == sd.current_subtopic_index
    IN Returned(sd, d,
            Result({"response", "current_stage", "is_session_complete", "sources"},
                   _generate_response_from_prompt(failing,
                       About("answer",
                             IF current_index < Len(subtopics) THEN current_index ELSE -1)),
                   "question_answered", FALSE,
                   IF current_index < Len(subtopics) THEN <<current_index + 1>> ELSE <<>>,
                   -1))

\* The progress fields _save_conversation_turn writes after the turn.
progress_data(sd, response_data) ==
    [conversation_count |-> sd.conversation_count,
     current_stage |-> response_data.current_stage,
     concepts_learned |-> sd.concepts_learned,
     quiz_scores |-> sd.quiz_scores,
     needs_remedial |-> sd.needs_remedial]

\* The turn saved with the stored count incremented in place ($inc) rather
\* than set to the count of the caller's session_data.
_save_conversation_turn_incrementing(sd, d, user_query, response_data) ==
    IF "current_stage" \notin response_data.keys
    THEN Raised(sd, d)
    ELSE LET turn_data ==
                [turn |-> sd.conversation_count,
                 user_message |-> user_query.text,
                 assistant_message |-> response_data.response,
                 stage |-> response_data.current_stage]
             d1 == save_conversation_turn(d, turn_data)
         IN Returned(sd,
                update_session_progress(d1,
                    [progress_data(sd, response_data) EXCEPT
                        !.conversation_count = d.conversation_count + 1]),
                response_data)

\* response_data["current_stage"] of a dict without that key raises KeyError,
\* before anything is written.
_save_conversation_turn(sd, d, user_query, response_data) ==
    IF "current_stage" \notin response_data.keys
    THEN Raised(sd, d)
    ELSE LET turn_data ==
                [turn |-> sd.conversation_count,
                 user_message |-> user_query.text,
                 assistant_message |-> response_data.response,
                 stage |-> response_data.current_stage]
             d1 == save_conversation_turn(d, turn_data)
         IN Returned(sd, update_session_progress(d1, progress_data(sd, response_data)),
                     response_data)

\* The keyword lists of the fallback.
PROCEED_WORDS == <<<<"y", "e", "s">>, <<"r", "e", "a", "d", "y">>, <<"s", "t", "a", "r", "t">>, <<"p", "r", "o", "c", "e", "e", "d">>, <<"b", "e", "g", "i", "n">>>>
QUIZ_WORDS == <<<<"q", "u", "i", "z">>, <<"t", "e", "s", "t">>, <<"c", "h", "e", "c", "k">>>>
NEXT_WORDS == <<<<"n", "e", "x", "t">>, <<"m", "o", "v", "e", " ", "o", "n">>, <<"c", "o", "n", "t", "i", "n", "u", "e">>>>
RETRY_WORDS == <<<<"r", "e", "t", "r", "y">>, <<"a", "g", "a", "i", "n">>, <<"e", "x", "p", "l", "a", "i", "n">>>>
END_WORDS == <<<<"e", "n", "d">>, <<"f", "i", "n", "i", "s", "h">>, <<"d", "o", "n", "e">>, <<"s", "t", "o", "p">>>>
FEEDBACK_WORDS == <<<<"a", "n", "s", "w", "e", "r">>, <<"a", ")">>, <<"b", ")">>, <<"c", ")">>, <<"t", "r", "u", "e">>, <<"f", "a", "l", "s", "e">>>>

\* The fallback with the rules in the order QUIZ, END, NEXT, RETRY, FEEDBACK,
\* QUESTION and the default LEARN.
keyword_fallback_documented(user_query) ==
    LET text == lower(user_query)
    IN IF AnyIn(text, <<<<"q", "u", "i", "z">>, <<"t", "e", "s", "t">>>>) THEN "QUIZ"
       ELSE IF AnyIn(text, <<<<"e", "n", "d">>, <<"f", "i", "n", "i", "s", "h">>, <<"d", "o", "n", "e">>, <<"q", "u", "i", "t">>, <<"s", "t", "o", "p">>>>)
       THEN "END"
       ELSE IF AnyIn(text, NEXT_WORDS) THEN "NEXT"
       ELSE IF AnyIn(text, RETRY_WORDS) THEN "RETRY"
       ELSE IF AnyIn(text, <<<<"=">>, <<"a", ")">>, <<"t", "r", "u", "e">>, <<"f", "a", "l", "s", "e">>>>)
       THEN "FEEDBACK"
       ELSE IF AnyIn(text, <<<<"?">>, <<"w", "h", "y">>, <<"w", "h", "a", "t">>, <<"h", "o", "w">>, <<"w", "h", "e", "n">>, <<"w", "h", "e", "r", "e">>, <<"w", "h", "o">>>>)
       THEN "QUESTION"
       ELSE "LEARN"

\* The except branch of _detect_intent.
keyword_fallback(user_query) ==
    LET text == lower(user_query)
    IN IF AnyIn(text, PROCEED_WORDS) THEN "PROCEED"
       ELSE IF AnyIn(text, QUIZ_WORDS) THEN "QUIZ"
       ELSE IF AnyIn(text, NEXT_WORDS) THEN "NEXT"
       ELSE IF AnyIn(text, RETRY_WORDS) THEN "RETRY"
       ELSE IF AnyIn(text, END_WORDS) THEN "END"
       ELSE IF Contains(text, <<"=">>) \/ AnyIn(text, FEEDBACK_WORDS) THEN "FEEDBACK"
       ELSE "LEARN"

\* response.strip().upper() of the apology string; a reply of the model is
\* kept as the label it is normalised to.
APOLOGY_UPPER == "I APOLOGIZE, BUT I'M HAVING TROUBLE GENERATING A RESPONSE RIGHT NOW."

\* The classifier without its test for an empty message.
_detect_intent_always_asks(user_query) ==
    LET response == generate_response("classify" \notin user_query.failing,
                                       user_query.intent)
    IN [intent |-> IF response.apology THEN APOLOGY_UPPER ELSE response.text,
        llm_calls |-> 1]

\* The label returned and the number of model calls made for it.
_detect_intent(user_query) ==
    IF user_query.text = <<>>
    THEN [intent |-> "CONTINUE", llm_calls |-> 0]
    ELSE LET response == generate_response("classify" \notin user_query.failing,
                                           user_query.intent)
         IN [intent |-> IF response.raised THEN keyword_fallback(user_query.text)
                        ELSE IF response.apology THEN APOLOGY_UPPER
                        ELSE response.text,
             llm_calls |-> 1]

\* The routing that takes an unlisted label as LEARN.
Dispatch_teaching(intent, sd, d, user_query) ==
    CASE intent = "END" -> _complete_session(sd, d)
      [] intent = "PROCEED" -> _start_first_subtopic(sd, d, user_query.failing)
      [] intent = "LEARN" -> _teach_current_subtopic(sd, d, user_query.failing)
      [] intent = "QUIZ" -> _generate_subtopic_quiz(sd, d, user_query.failing)
      [] intent = "FEEDBACK" -> _evaluate_subtopic_quiz(sd, d, user_query)
      [] intent = "RETRY" -> _retry_subtopic_explanation(sd, d, user_query.failing)
      [] intent = "NEXT" -> _move_to_next_subtopic(sd, d, user_query.failing)
      [] OTHER -> _teach_current_subtopic(sd, d, user_query.failing)

Dispatch(intent, sd, d, user_query) ==
    CASE intent = "END" -> _complete_session(sd, d)
      [] intent = "PROCEED" -> _start_first_subtopic(sd, d, user_query.failing)
      [] intent = "LEARN" -> _teach_current_subtopic(sd, d, user_query.failing)
      [] intent = "QUIZ" -> _generate_subtopic_quiz(sd, d, user_query.failing)
      [] intent = "FEEDBACK" -> _evaluate_subtopic_quiz(sd, d, user_query)
      [] intent = "RETRY" -> _retry_subtopic_explanation(sd, d, user_query.failing)
      [] intent = "NEXT" -> _move_to_next_subtopic(sd, d, user_query.failing)
      [] OTHER -> _handle_general_question(sd, d, user_query.failing)

handle_user_input(d, user_query) ==
    LET session_data == get_revision_session(d)
    IN IF session_data = NoDoc
       THEN Returned(NoDoc, d,
                Result({"response", "is_session_complete"}, Plain("not_found"),
                       NoKey, FALSE, <<>>, -1))
       ELSE LET sd == [session_data EXCEPT !.conversation_count = @ + 1]
                intent == _detect_intent(user_query).intent
                handled == Dispatch(intent, sd, d, user_query)
            IN IF handled.raised
               THEN handled
               ELSE _save_conversation_turn(handled.sd, handled.db, user_query,
                                            handled.result)

start_revision_session(d, topic) ==
    LET subtopics == get_topic_subtopics(topic)
        subtopics_count == Len(subtopics)
        topic_config == calculate_topic_limits(subtopics_count)
        intro_response == About("intro", subtopics_count)
        session_data ==
            [topic |-> topic,
             conversation_count |-> 0,
             is_complete |-> FALSE,
             stage |-> "topic_intro",
             quiz_frequency |-> topic_config.quiz_frequency,
             concepts_learned |-> <<>>,
             quiz_scores |-> <<>>,
             needs_remedial |-> FALSE,
             max_conversations |-> topic_config.max_conversations,
             completion_threshold |-> topic_config.completion_threshold,
             conversation_history |->
                <<[turn |-> 0, type |-> "topic_intro",
                   assistant_message |-> intro_response]>>,
             current_subtopic_index |-> 0,
             subtopic_completion_status |-> [i \in 1..subtopics_count |-> FALSE],
             subtopic_quiz_scores |-> <<>>]
    IN Returned(session_data, save_revision_session(d, session_data),
            [Result({"response", "topic", "session_id", "conversation_count",
                     "is_session_complete", "current_stage", "sources",
                     "max_conversations", "completion_threshold"},
                    intro_response, "topic_intro", FALSE, <<>>, -1)
             EXCEPT !.conversation_count = 0])

\* ---------------------------------------------------------- api/revision.py
NoBody == [absent |-> TRUE]
Frame(type, result) ==
    [type |-> type,
     content |-> result.response,
     conversation_count |->
        IF "conversation_count" \in result.keys THEN result.conversation_count ELSE 0,
     is_session_complete |-> result.is_session_complete,
     current_stage |->
        IF "current_stage" \in result.keys THEN result.current_stage ELSE "revision"]

\* POST /revision/start: any exception becomes HTTP 500.
start_revision_session_endpoint(out) ==
    IF out.raised
    THEN [via |-> "start", status |-> 500, body |-> NoBody, frames |-> <<>>,
          closed |-> FALSE]
    ELSE [via |-> "start", status |-> 200,
          body |-> [response |-> out.result.response,
                    conversation_count |-> 0,
                    is_session_complete |-> out.result.is_session_complete],
          frames |-> <<>>, closed |-> FALSE]

\* POST /revision/continue: result["conversation_count"] is read without a
\* default; any exception becomes HTTP 500.
continue_revision_session(out) ==
    IF out.raised \/ "response" \notin out.result.keys
       \/ "conversation_count" \notin out.result.keys
       \/ "is_session_complete" \notin out.result.keys
    THEN [via |-> "continue", status |-> 500, body |-> NoBody, frames |-> <<>>,
          closed |-> FALSE]
    ELSE [via |-> "continue", status |-> 200,
          body |-> [response |-> out.result.response,
                    conversation_count |-> out.result.conversation_count,
                    is_session_complete |-> out.result.is_session_complete],
          frames |-> <<>>, closed |-> FALSE]

\* WS /ws/revision/{session_id}, one received text message: an exception
\* closes the socket without a frame.
revision_websocket(out) ==
    IF out.raised
    THEN [via |-> "ws", status |-> 0, body |-> NoBody, frames |-> <<>>, closed |-> TRUE]
    ELSE [via |-> "ws", status |-> 0, body |-> NoBody,
          frames |-> <<Frame("message", out.result)>> \o
                     (IF out.result.is_session_complete
                      THEN <<Frame("session_complete", out.result)>> ELSE <<>>),
          closed |-> FALSE]

\* ------------------------------------------------------------ the inputs
\* A user message is known by its text, by what the classifier and the
\* evaluator make of it when the model answers, and by the calls of its
\* request that the model fails to answer.
SomeText == <<"o", "k">>
Msg(intent, score) ==
    [text |-> SomeText, intent |-> intent, score |-> score, failing |-> {}]
NoQuery == [text |-> <<>>, intent |-> "none", score |-> -1, failing |-> {}]

\* The messages the model answers: any label, any score, or no text at all.
Messages ==
    {Msg(i, -1) : i \in Intents \ {"FEEDBACK"}}
    \cup {Msg("FEEDBACK", s) : s \in Scores}
    \cup {NoQuery}

Entry(op, topic, query, out) ==
    [op |-> op, topic |-> topic, query |-> query, raised |-> out.raised,
     result |-> out.result, session_data |-> out.sd]

\* ------------------------------------------------------------ operations
\* Two connections send messages for the same session id.  A call under way
\* is at one of its awaits: it holds the session_data it loaded, the count
\* it read, and the handler's result once there is one.
Callers == {"a", "b"}
Idle == [pc |-> "idle", query |-> NoQuery, sd |-> NoDoc, result |-> NoResult,
         raised |-> FALSE, read_count |-> -1]
NoCalls == [c \in Callers |-> Idle]

StartSession(topic) ==
    LET out == start_revision_session(db, topic)
    IN /\ db' = out.db
       /\ prev' = db
       /\ log' = Append(log, Entry("start", topic, NoQuery, out))
       /\ last' = start_revision_session_endpoint(out)
       /\ UNCHANGED inflight

ContinueSession(query) ==
    LET out == handle_user_input(db, query)
    IN /\ db' = out.db
       /\ prev' = db
       /\ log' = Append(log, Entry("input", -1, query, out))
       /\ last' = continue_revision_session(out)
       /\ UNCHANGED inflight

WebSocketMessage(query) ==
    LET out == handle_user_input(db, query)
    IN /\ db' = out.db
       /\ prev' = db
       /\ log' = Append(log, Entry("input", -1, query, out))
       /\ last' = revision_websocket(out)
       /\ UNCHANGED inflight

NoAnswer == [via |-> "none", status |-> 0, body |-> NoBody, frames |-> <<>>,
             closed |-> FALSE]

Init ==
    /\ db = NoDoc
    /\ prev = NoDoc
    /\ log = <<>>
    /\ last = NoAnswer
    /\ inflight = NoCalls

Next ==
    /\ Len(log) < MaxOps
    /\ \/ \E topic \in Topics : StartSession(topic)
       \/ \E query \in Messages : ContinueSession(query)
       \/ \E query \in Messages : WebSocketMessage(query)

Spec == Init /\ [][Next]_vars

\* ------------------------------------------------- the scripted scenario
\* start, PROCEED, then QUIZ, FEEDBACK, NEXT over and over, over WebSocket.
Script(n) ==
    IF n = 1 THEN {Msg("PROCEED", -1)}
    ELSE IF (n - 2) % 3 = 0 THEN {Msg("QUIZ", -1)}
    ELSE IF (n - 2) % 3 = 1 THEN {Msg("FEEDBACK", s) : s \in Scores}
    ELSE {Msg("NEXT", -1)}

ScenarioNext ==
    /\ Len(log) < MaxScenarioOps
    /\ \/ /\ Len(log) = 0
          /\ \E topic \in 1..MaxSubtopics : StartSession(topic)
       \/ /\ Len(log) >= 1
          /\ \E query \in Script(Len(log)) : WebSocketMessage(query)

SpecScenario == Init /\ [][ScenarioNext]_vars

\* --------------------------------------- one input on any session document
SeqsUpTo(S, n) == UNION {[1..k -> S] : k \in 0..n}
ListKeys == {"subtopic_quiz_scores", "subtopic_completion_status"}

\* Session documents with any index and any content of the two subtopic
\* lists, a list being missing, empty or of any length up to MaxLen.
AnyDocs ==
    {[start_revision_session(NoDoc, topic).db EXCEPT
        !.conversation_count = 1,
        !.current_subtopic_index = index,
        !.subtopic_completion_status = status,
        !.subtopic_quiz_scores = scores,
        !.missing = missing] :
        topic \in Topics, index \in 0..MaxIndex,
        status \in SeqsUpTo(BOOLEAN, MaxLen), scores \in SeqsUpTo({0, 80}, MaxLen),
        missing \in SUBSET ListKeys}

InitAny ==
    /\ db \in {d \in AnyDocs :
                /\ "subtopic_quiz_scores" \in d.missing => d.subtopic_quiz_scores = <<>>
                /\ "subtopic_completion_status" \in d.missing
                     => d.subtopic_completion_status = <<>>}
    /\ prev = db
    /\ log = <<>>
    /\ last = NoAnswer
    /\ inflight = NoCalls

NextAny ==
    /\ log = <<>>
    /\ \E query \in Messages : WebSocketMessage(query)

SpecAny == InitAny /\ [][NextAny]_vars

\* ================================================================ claims
Last(s) == s[Len(s)]
IsInput(e, intent) == e.op = "input" /\ e.query.intent = intent
Completes(e) == ~e.raised /\ e.result.is_session_complete
ReturnsStage(e, stage) ==
    ~e.raised /\ "current_stage" \in e.result.keys /\ e.result.current_stage = stage

\* A fresh start on a topic with subtopics followed by NEXT inputs only.
IsNextRun(l) ==
    /\ Len(l) >= 1
    /\ l[1].op = "start" /\ l[1].topic >= 1
    /\ \A i \in 2..Len(l) : IsInput(l[i], "NEXT")

\* C1: after a fresh start on a topic with N >= 1 subtopics, a run of NEXT
\* inputs reaches a call that returns is_session_complete=true within N
\* calls, returns it exactly once, and returns no lesson after it.
C1_NextRunCompletesOnce ==
    IsNextRun(log) =>
        LET N == log[1].topic
            calls == 2..Len(log)
        IN /\ Len(log) - 1 >= N => \E i \in 2..(N + 1) : Completes(log[i])
           /\ Cardinality({i \in calls : Completes(log[i])}) <= 1
           /\ \A i, j \in calls :
                (i < j /\ Completes(log[i])) => ~ReturnsStage(log[j], "learning")

\* The scripted run on 3 subtopics with every answer scored 0.8.
IsScenario(l) ==
    /\ Len(l) >= 1
    /\ l[1].op = "start" /\ l[1].topic = 3
    /\ \A n \in 2..Len(l) :
        /\ l[n].op = "input"
        /\ l[n].query \in Script(n - 1)
        /\ l[n].query.intent = "FEEDBACK" => l[n].query.score = 80

\* What the n-th input of the scenario (n >= 1) has to return, i being the
\* subtopic it belongs to.
ScenarioStep(e, n) ==
    LET i == (n - 2) \div 3
    IN IF n = 1
       THEN ReturnsStage(e, "learning") /\ e.result.response = About("lesson", 0)
       ELSE IF (n - 2) % 3 = 0
       THEN ReturnsStage(e, "quiz") /\ e.result.response = About("quiz", i)
       ELSE IF (n - 2) % 3 = 1
       THEN /\ ~e.raised
            /\ e.result.performance_score = 80
            /\ e.result.response.sub = i
       ELSE IF i < 2
       THEN ReturnsStage(e, "learning") /\ e.result.response.kind = "lesson"
            /\ e.result.response.sub = i + 1
       ELSE ReturnsStage(e, "complete") /\ Completes(e)
            /\ e.result.response.passed_count = 3

\* C2: on 3 subtopics, start, PROCEED, then QUIZ, FEEDBACK (0.8), NEXT per
\* subtopic i yield the lesson of subtopic 0, then a quiz for subtopic i, a
\* passed grade stored at position i of both lists, and the lesson of
\* subtopic i+1 or, after the last one, COMPLETE with passed_count 3.
C2_ThreeSubtopicScenario ==
    IsScenario(log) =>
        /\ \A n \in 1..(Len(log) - 1) : ScenarioStep(log[n + 1], n)
        /\ (Len(log) >= 3 /\ IsInput(Last(log), "FEEDBACK")) =>
            LET i == (Len(log) - 3) \div 3
            IN /\ InRange(db.subtopic_quiz_scores, i)
               /\ InRange(db.subtopic_completion_status, i)
               /\ At(db.subtopic_quiz_scores, i) = 80
               /\ At(db.subtopic_completion_status, i) = TRUE

\* The last operation was a start on a session id that already had a
\* document, for the same topic.
IsRestart ==
    /\ log # <<>> /\ Last(log).op = "start" /\ ~Last(log).raised
    /\ prev # NoDoc /\ prev.topic = Last(log).topic

\* C3: start_revision_session on a session id that already has a document
\* reuses it: conversation_count, the history (apart from the appended
\* introduction turn), current_subtopic_index, both subtopic lists and
\* is_complete are what they were before the call.
C3_StartReusesDocument ==
    IsRestart =>
        /\ db.conversation_count = prev.conversation_count
        /\ Len(db.conversation_history) = Len(prev.conversation_history) + 1
        /\ SubSeq(db.conversation_history, 1, Len(prev.conversation_history))
             = prev.conversation_history
        /\ db.current_subtopic_index = prev.current_subtopic_index
        /\ db.subtopic_completion_status = prev.subtopic_completion_status
        /\ db.subtopic_quiz_scores = prev.subtopic_quiz_scores
        /\ db.is_complete = prev.is_complete

\* The last operation was this intent on an existing session.
HandledOnSession(intent) ==
    log # <<>> /\ IsInput(Last(log), intent) /\ prev # NoDoc

HandledAnyOnSession == log # <<>> /\ Last(log).op = "input" /\ prev # NoDoc

\* The turn stored last is the one of the last input.
TurnAppended ==
    /\ Len(db.conversation_history) = Len(prev.conversation_history) + 1
    /\ SubSeq(db.conversation_history, 1, Len(prev.conversation_history))
         = prev.conversation_history
    /\ Last(db.conversation_history).turn = prev.conversation_count + 1
    /\ Last(db.conversation_history).user_message = Last(log).query.text

\* C4: an END input on an existing session completes normally: it returns
\* the finalize handler's result with is_session_complete=true, and the
\* stored session then has is_complete, the final stats, the incremented
\* conversation_count and the appended turn of this input.
C4_EndCompletesNormally ==
    HandledOnSession("END") =>
        /\ Completes(Last(log))
        /\ db.is_complete
        /\ db.final_stats # NoStats
        /\ db.conversation_count = prev.conversation_count + 1
        /\ TurnAppended

\* The inputs handled since the session document was last written by start.
InputsSinceStart(l) ==
    LET starts == {i \in 1..Len(l) : l[i].op = "start"}
        from == IF starts = {} THEN 0
                ELSE CHOOSE i \in starts : \A j \in starts : j <= i
    IN Len(l) - from

\* C5: every handle_user_input call on an existing session raises the
\* stored conversation_count by exactly 1, whatever the intent, so that the
\* stored count never decreases and equals the number of inputs processed.
C5_CountIncrementsPerInput ==
    /\ HandledAnyOnSession => db.conversation_count = prev.conversation_count + 1
    /\ db # NoDoc => db.conversation_count = InputsSinceStart(log)

\* C6: a continue request for a session id without a stored session gets a
\* normal response telling the client to restart, not an error status, and
\* creates or modifies no session document.
C6_UnknownSessionAnsweredNormally ==
    (last.via = "continue" /\ prev = NoDoc) =>
        /\ last.status = 200
        /\ last.body # NoBody
        /\ db = NoDoc

\* C7: for an existing session and every intent, POST /revision/continue
\* answers with a well-formed body whose conversation_count is the count
\* of the session after this input and whose is_session_complete is the
\* handler's.
C7_ContinueAnswersWithCount ==
    (last.via = "continue" /\ prev # NoDoc) =>
        /\ last.status = 200
        /\ last.body # NoBody
        /\ last.body.conversation_count = prev.conversation_count + 1
        /\ last.body.conversation_count = db.conversation_count
        /\ ~Last(log).raised
        /\ last.body.is_session_complete = Last(log).result.is_session_complete

\* The text message just processed finalizes the session: END, or NEXT on
\* the last subtopic.
Finalizes ==
    /\ prev # NoDoc
    /\ \/ IsInput(Last(log), "END")
       \/ /\ IsInput(Last(log), "NEXT")
          /\ prev.current_subtopic_index + 1 >= Len(get_topic_subtopics(prev.topic))

FrameTypes == [i \in 1..Len(last.frames) |-> last.frames[i].type]

\* C8: for a WebSocket text message that finalizes the session the server
\* sends a 'message' frame and then a 'session_complete' frame; for every
\* other message exactly one 'message' frame.
C8_WebSocketFrames ==
    last.via = "ws" =>
        IF Finalizes THEN FrameTypes = <<"message", "session_complete">>
        ELSE FrameTypes = <<"message">>

\* The two subtopic lists as the handler finds them: a missing one is empty.
ListBefore(key) == IF key \in prev.missing THEN <<>> ELSE prev[key]

\* The stored list is the old one padded with the default to at least
\* index+1 entries, with the value written at the index.
PaddedAndWritten(key, index, default, value) ==
    /\ key \notin db.missing
    /\ Len(db[key]) = Max2(Len(ListBefore(key)), index + 1)
    /\ \A j \in 1..Len(db[key]) :
        db[key][j] = IF j = index + 1 THEN value
                     ELSE IF j <= Len(ListBefore(key)) THEN ListBefore(key)[j]
                     ELSE default

\* C9: for every current_subtopic_index >= 0 and every prior content of the
\* two subtopic lists (missing, empty, shorter than the index), FEEDBACK
\* raises no out-of-range error: both lists are padded with false / 0.0 to
\* at least index+1 entries, the score and passed = (score >= 0.6) are
\* written at the index, and the other entries keep their values.
C9_FeedbackPadsBeforeWrite ==
    HandledOnSession("FEEDBACK") =>
        LET index == prev.current_subtopic_index
            score == Last(log).query.score
        IN /\ ~Last(log).raised
           /\ PaddedAndWritten("subtopic_quiz_scores", index, 0, score)
           /\ PaddedAndWritten("subtopic_completion_status", index, FALSE, score >= 60)

\* FEEDBACK at an index beyond both lists, one missing and one too short.
C9_Witness ==
    /\ HandledOnSession("FEEDBACK")
    /\ ~Last(log).raised
    /\ prev.current_subtopic_index >= 2
    /\ "subtopic_quiz_scores" \in prev.missing
    /\ Len(prev.subtopic_completion_status) = 1
    /\ Len(db.subtopic_quiz_scores) = prev.current_subtopic_index + 1
    /\ Len(db.subtopic_completion_status) = prev.current_subtopic_index + 1

\* C10 as stated: the stage handle_user_input returns for a FEEDBACK input
\* is READY_NEXT exactly when the score is >= 0.6 and RETRY otherwise.
C10_ReturnsReadyNextOrRetry ==
    HandledOnSession("FEEDBACK") =>
        /\ ~Last(log).raised
        /\ Last(log).result.current_stage =
              IF Last(log).query.score >= 60 THEN "ready_next" ELSE "retry"

\* C10 as amended: a FEEDBACK input sets the stage of the session data it
\* works on to READY_NEXT exactly when the score is >= 0.6 (0.6 counts as
\* passed) and to RETRY otherwise, and handle_user_input returns
\* current_stage 'passed' in the first case and 'failed' in the second.
C10_StageByPassMark ==
    HandledOnSession("FEEDBACK") =>
        LET e == Last(log)
        IN /\ ~e.raised
           /\ "current_stage" \in e.result.keys
           /\ e.query.score >= 60 =>
                e.session_data.stage = "ready_next" /\ e.result.current_stage = "passed"
           /\ e.query.score < 60 =>
                e.session_data.stage = "retry" /\ e.result.current_stage = "failed"

\* An answer scored exactly 0.6 was graded and counted as passed.
C10_Witness ==
    /\ HandledOnSession("FEEDBACK")
    /\ Last(log).query.score = 60
    /\ Last(log).session_data.stage = "ready_next"
    /\ Last(log).result.current_stage = "passed"

\* ------------------------------------------------ core/revision_agent.py
\* revision_prompts.EVAL_PROMPT_TEMPLATE: backend/prompts/revision_prompts.py
\* defines the class RevisionPrompts and nothing else, so reading the
\* attribute raises AttributeError.
EVAL_PROMPT_TEMPLATE_defined == FALSE

ADD_MISSING == <<"A", "d", "d", " ", "m", "i", "s", "s", "i", "n", "g", " ", "k", "e", "y", " ", "p", "o", "i", "n", "t", "s", ".">>

\* RevisionAgent.evaluate_answer: the verdict, the correction, the number of
\* model calls made, and whether it raised instead of returning.
evaluate_answer(user_answer, expected_keywords, reachable, reply) ==
    LET ua == lower(user_answer)
        matched == SelectSeq(expected_keywords, LAMBDA k : Contains(ua, lower(k)))
    IN IF Len(matched) = Len(expected_keywords) /\ Len(expected_keywords) > 0
       THEN [raised |-> FALSE, verdict |-> "CORRECT", correction |-> <<>>,
             llm_calls |-> 0]
       ELSE IF Len(matched) > 0
       THEN [raised |-> FALSE, verdict |-> "PARTIAL", correction |-> ADD_MISSING,
             llm_calls |-> 0]
       ELSE IF ~EVAL_PROMPT_TEMPLATE_defined
       THEN [raised |-> TRUE, verdict |-> NoKey, correction |-> <<>>, llm_calls |-> 0]
       ELSE LET resp == generate_response(reachable, reply)
            IN [raised |-> FALSE, verdict |-> "WRONG",
                correction |-> IF resp.apology THEN APOLOGY ELSE resp.text,
                llm_calls |-> 1]

\* ------------------------------------------- the functions, one call each
MaxChunks == 30
MaxKeywords == 2
MaxReplyLen == 4

\* User messages as written.
SampleTexts ==
    {<<"Y", "e", "s">>,
     <<"q", "u", "i", "z", " ", "m", "e">>,
     <<"n", "e", "x", "t", " ", "t", "e", "s", "t">>,
     <<"w", "e", "e", "k", "e", "n", "d">>,
     <<"x", "=", "1">>,
     <<"h", "e", "l", "l", "o">>,
     <<"I", "'", "m", " ", "d", "o", "n", "e">>,
     <<"e", "x", "p", "l", "a", "i", "n", " ", "a", "g", "a", "i", "n">>,
     <<"a", ")", " ", "t", "r", "u", "e">>}

\* The classifier's inputs: a text, the label the model would reply, and
\* whether the model can be reached.
ClassifierInputs ==
    {[text |-> t, intent |-> i, score |-> -1, failing |-> f] :
        t \in SampleTexts \cup {<<>>}, i \in Intents \ {"QUESTION"},
        f \in {{}, {"classify"}}}

\* Expected keywords, answers, and what the model would say of an answer.
KeywordSamples == {<<"t", "c", "p">>, <<"U", "D", "P">>, <<"p">>}
AnswerSamples ==
    {<<>>,
     <<"T", "C", "P">>,
     <<"t", "c", "p", " ", "a", "n", "d", " ", "u", "d", "p">>,
     <<"U", "d", "p">>,
     <<"i", "p">>}
ModelSays == <<"w", "r", "o", "n", "g">>

\* Replies of the evaluating model: any text of these characters.
ReplyChars == {"0", "1", "5", ".", "x"}
Replies == SeqsUpTo(ReplyChars, MaxReplyLen)

Applied(op, args, result) == [op |-> op, args |-> args, result |-> result]

DetectIntent(user_query) ==
    /\ log' = <<Applied("_detect_intent", user_query, _detect_intent(user_query))>>
    /\ UNCHANGED <<db, prev, last, inflight>>

CalculateTopicLimits(content_chunks) ==
    /\ log' = <<Applied("calculate_topic_limits", content_chunks,
                        calculate_topic_limits(content_chunks))>>
    /\ UNCHANGED <<db, prev, last, inflight>>

EvaluateAnswer(user_answer, expected_keywords, reachable) ==
    /\ log' = <<Applied("evaluate_answer",
                        [user_answer |-> user_answer,
                         expected_keywords |-> expected_keywords,
                         reachable |-> reachable],
                        evaluate_answer(user_answer, expected_keywords, reachable,
                                        ModelSays))>>
    /\ UNCHANGED <<db, prev, last, inflight>>

EvaluateQuizPerformance(reachable, reply) ==
    /\ log' = <<Applied("_evaluate_quiz_performance",
                        [reachable |-> reachable, reply |-> reply],
                        evaluate_reply(reachable, reply))>>
    /\ UNCHANGED <<db, prev, last, inflight>>

\* Messages given to the keyword scan: the samples, and texts on which the
\* order of the rules or a single keyword decides the label.
FallbackTexts ==
    SampleTexts \cup
    {<<"c", "h", "e", "c", "k", " ", "i", "t">>,
     <<"q", "u", "i", "t">>,
     <<"I", "'", "m", " ", "d", "o", "n", "e", ",", " ", "n", "e", "x", "t">>,
     <<"m", "y", " ", "a", "n", "s", "w", "e", "r">>,
     <<"W", "h", "y", "?">>,
     <<"b", ")", " ", "n", "o">>,
     <<"S", "t", "o", "p">>,
     <<"r", "e", "t", "r", "y", " ", "t", "h", "e", " ", "t", "e", "s", "t">>}

KeywordFallback(user_query) ==
    /\ log' = <<Applied("keyword_fallback", user_query, keyword_fallback(user_query))>>
    /\ UNCHANGED <<db, prev, last, inflight>>

NextFunctions ==
    /\ log = <<>>
    /\ \/ \E user_query \in ClassifierInputs : DetectIntent(user_query)
       \/ \E content_chunks \in 0..MaxChunks : CalculateTopicLimits(content_chunks)
       \/ \E user_answer \in AnswerSamples, reachable \in BOOLEAN,
             expected_keywords \in SeqsUpTo(KeywordSamples, MaxKeywords) :
                EvaluateAnswer(user_answer, expected_keywords, reachable)
       \/ \E reply \in Replies : EvaluateQuizPerformance(TRUE, reply)
       \/ EvaluateQuizPerformance(FALSE, <<>>)
       \/ \E user_query \in FallbackTexts : KeywordFallback(user_query)

SpecFunctions == Init /\ [][NextFunctions]_vars

\* ----------------------------------------------------- the claims C11..C20
\* The function called last, its arguments and what it gave.
Called(op) == log # <<>> /\ Last(log).op = op

\* C11: whenever the language model is unreachable, classifying a non-empty
\* user message returns the label of the keyword fallback, which is one of
\* PROCEED, LEARN, QUIZ, FEEDBACK, RETRY, NEXT, END, QUESTION.
C11_UnreachableUsesKeywordFallback ==
    (/\ Called("_detect_intent")
     /\ Last(log).args.text # <<>>
     /\ "classify" \in Last(log).args.failing)
    => /\ Last(log).result.intent = keyword_fallback(Last(log).args.text)
       /\ Last(log).result.intent \in Intents

\* C12: when the user message is absent or empty, the classifier returns
\* CONTINUE and makes no call to the language model, whether or not the
\* model can be reached.
C12_EmptyMessageContinuesWithoutModel ==
    (Called("_detect_intent") /\ Last(log).args.text = <<>>)
    => /\ Last(log).result.intent = "CONTINUE"
       /\ Last(log).result.llm_calls = 0

C12_Witness ==
    /\ Called("_detect_intent")
    /\ Last(log).args.text = <<>>
    /\ "classify" \in Last(log).args.failing
    /\ Last(log).result.intent = "CONTINUE"

\* The pair (max_conversations, completion_threshold) of a result.
LimitsPair(r) == <<r.max_conversations, r.completion_threshold>>

\* C13 as stated: for every subtopic count N in 0..30,
\* calculate_topic_limits(N) returns max_conversations = min(50, max(8, 2N)),
\* completion_threshold = max(6, round(0.6 * max_conversations)) and
\* quiz_frequency = max(3, round(max_conversations / 5)); N = 1 and N = 4
\* give (8, 6) and N = 25 gives (50, 30).
C13_LimitsRounded ==
    Called("calculate_topic_limits") =>
        LET N == Last(log).args
            r == Last(log).result
            m == Min2(50, Max2(8, 2 * N))
        IN /\ r.max_conversations = m
           /\ r.completion_threshold = Max2(6, round_div(6 * m, 10))
           /\ r.quiz_frequency = Max2(3, round_div(m, 5))
           /\ N \in {1, 4} => LimitsPair(r) = <<8, 6>>
           /\ N = 25 => LimitsPair(r) = <<50, 30>>

\* C13: for every subtopic count N in 0..30, calculate_topic_limits(N)
\* returns max_conversations = min(50, max(8, 2N)), completion_threshold =
\* max(6, 0.6 * max_conversations with its fraction dropped) and
\* quiz_frequency = max(3, max_conversations / 5 with its fraction dropped);
\* N = 1 and N = 4 give (8, 6) and N = 25 gives (50, 30).
C13_LimitsTruncated ==
    Called("calculate_topic_limits") =>
        LET N == Last(log).args
            r == Last(log).result
            m == Min2(50, Max2(8, 2 * N))
        IN /\ r.max_conversations = m
           /\ r.completion_threshold = Max2(6, (6 * m) \div 10)
           /\ r.quiz_frequency = Max2(3, m \div 5)
           /\ N \in {1, 4} => LimitsPair(r) = <<8, 6>>
           /\ N = 25 => LimitsPair(r) = <<50, 30>>

\* N = 8: 0.6 * 16 = 9.6 is truncated to 9 where rounding gives 10.
C13_Witness ==
    /\ Called("calculate_topic_limits")
    /\ Last(log).args = 8
    /\ Last(log).result.completion_threshold = 9

\* The keyword occurs in the answer at some position, letter case ignored.
Occurs(k, answer) ==
    \E i \in 0..(Len(answer) - Len(k)) :
        \A n \in 1..Len(k) : lower_char(answer[i + n]) = lower_char(k[n])

\* C14: for every non-empty list of expected keywords and every answer, the
\* keyword evaluator returns CORRECT exactly when every keyword occurs in
\* the answer as a case-insensitive substring, PARTIAL exactly when at least
\* one but not all occur, and, when none occurs, asks the language model and
\* returns WRONG with the model's text as correction; the model is called
\* in that last case only.
C14_KeywordVerdicts ==
    (Called("evaluate_answer") /\ Last(log).args.expected_keywords # <<>>) =>
        LET a == Last(log).args
            r == Last(log).result
            found == {n \in 1..Len(a.expected_keywords) :
                        Occurs(a.expected_keywords[n], a.user_answer)}
            all == Cardinality(found) = Len(a.expected_keywords)
        IN /\ ~r.raised
           /\ (r.verdict = "CORRECT") <=> all
           /\ (r.verdict = "PARTIAL") <=> (found # {} /\ ~all)
           /\ found = {} =>
                /\ r.verdict = "WRONG"
                /\ r.llm_calls = 1
                /\ r.correction = IF a.reachable THEN ModelSays ELSE APOLOGY
           /\ found # {} => r.llm_calls = 0

\* The texts the numeric pattern matches as a whole: 0, 1, 1.0, and 0.
\* followed by one or more digits.
InPattern(m) ==
    \/ m \in {<<"0">>, <<"1">>, <<"1", ".", "0">>}
    \/ /\ Len(m) >= 3
       /\ m[1] = "0"
       /\ m[2] = "."
       /\ \A i \in 3..Len(m) : IsDigit(m[i])

\* Where the reply holds such a text, and the first of them: the one that
\* begins leftmost and, of those, runs furthest.
Tokens(reply) ==
    {t \in (1..Len(reply)) \X (1..Len(reply)) :
        t[1] <= t[2] /\ InPattern(SubSeq(reply, t[1], t[2]))}
FirstToken(reply) ==
    LET first == CHOOSE t \in Tokens(reply) :
                    \A u \in Tokens(reply) :
                        t[1] < u[1] \/ (t[1] = u[1] /\ t[2] >= u[2])
    IN SubSeq(reply, first[1], first[2])

\* The number a token writes: its digits over the power of ten of its
\* decimals.
TokenValue(m) ==
    [num |-> Number(SelectSeq(m, IsDigit)), den |-> Pow10(Max2(0, Len(m) - 2))]

InUnit(f) == f.den > 0 /\ 0 <= f.num /\ f.num <= f.den
SameValue(f, g) == f.num * g.den = g.num * f.den

\* C15: for every reply of the model the answer evaluator returns a score
\* in [0.0, 1.0]: the value of the first token of the reply that matches the
\* numeric pattern, and 0.5 when the model call fails or the reply holds no
\* such token.
C15_ScoreOfFirstToken ==
    Called("_evaluate_quiz_performance") =>
        LET a == Last(log).args
            score == Last(log).result.score
        IN /\ InUnit(score)
           /\ IF a.reachable /\ Tokens(a.reply) # {}
              THEN SameValue(score, TokenValue(FirstToken(a.reply)))
              ELSE score = Half

\* "x0.5": the token 0.5 after a character that is not part of it.
C15_Witness ==
    /\ Called("_evaluate_quiz_performance")
    /\ Last(log).args.reachable
    /\ Last(log).args.reply = <<"x", "0", ".", "5">>
    /\ SameValue(Last(log).result.score, Half)

\* Calls i..j of the log are all handle_user_input calls (no restart between).
InputsOnly(i, j) == \A k \in i..j : log[k].op = "input"

\* The call returned a lesson or a quiz, or recorded a grade.
TeachesOrQuizzes(e) ==
    ~e.raised /\ e.result.response.kind \in {"lesson", "retry_lesson", "quiz"}
RecordsGrade(e) == ~e.raised /\ "performance_score" \in e.result.keys

\* C16: COMPLETE is terminal: once a handle_user_input call on a session has
\* returned is_session_complete = true, no later handle_user_input call on
\* that session returns a stage other than complete, generates another
\* lesson or quiz, or records another grade.
C16_CompleteIsTerminal ==
    \A i \in 1..Len(log) : \A j \in 1..Len(log) :
        (i < j /\ InputsOnly(i, j) /\ Completes(log[i])) =>
            /\ ~log[j].raised => ReturnsStage(log[j], "complete")
            /\ ~TeachesOrQuizzes(log[j])
            /\ ~RecordsGrade(log[j])

\* C19: the current_subtopic_index a handle_user_input call reads from the
\* stored session is the index the previous call on that session left (an
\* advance made by NEXT is stored and seen by the next call), and the stored
\* index never decreases from one handle_user_input call to the next.
C19_IndexCarriedOver ==
    (/\ Len(log) >= 2
     /\ Last(log).op = "input"
     /\ prev # NoDoc
     /\ ~log[Len(log) - 1].raised
     /\ log[Len(log) - 1].session_data # NoDoc)
    => /\ prev.current_subtopic_index
            = log[Len(log) - 1].session_data.current_subtopic_index
       /\ db.current_subtopic_index >= prev.current_subtopic_index

\* C20: whenever handle_user_input returns is_session_complete = true (via
\* END, via LEARN past the last subtopic, or via NEXT on the last subtopic),
\* the stored session document has is_complete = true afterwards.
C20_CompletionIsStored ==
    (log # <<>> /\ Last(log).op = "input" /\ Completes(Last(log)))
    => db # NoDoc /\ db.is_complete

\* --------------------------------- one input while model calls may fail
\* The messages of Messages with any of their request's model calls failing.
MessagesOutage == {[m EXCEPT !.failing = f] : m \in Messages, f \in SUBSET LlmCalls}

\* A session just started, or started and its first quiz passed.
DocsOutage ==
    {start_revision_session(NoDoc, topic).db : topic \in Topics}
    \cup {handle_user_input(start_revision_session(NoDoc, topic).db,
                            Msg("FEEDBACK", 80)).db : topic \in Topics}

InitOutage ==
    /\ db \in DocsOutage
    /\ prev = NoDoc
    /\ log = <<>>
    /\ last = NoAnswer
    /\ inflight = NoCalls

NextOutage ==
    /\ log = <<>>
    /\ \E query \in MessagesOutage : WebSocketMessage(query)

SpecOutage == InitOutage /\ [][NextOutage]_vars

\* The last call was a handle_user_input call during which text generation
\* fails, and what the same call gives when text generation works.
GenerationFails ==
    log # <<>> /\ Last(log).op = "input" /\ "generate" \in Last(log).query.failing
WithGeneration ==
    handle_user_input(prev, [Last(log).query EXCEPT !.failing = @ \ {"generate"}])

\* The texts handlers have the model generate (the others are fixed strings).
GeneratedKinds == {"lesson", "retry_lesson", "quiz", "feedback", "final", "answer"}

\* A stored document and a result with the text of the last turn left out.
TextLeftOut(d) ==
    [d EXCEPT !.conversation_history =
        [i \in 1..Len(@) |->
            IF i = Len(@) THEN [@[i] EXCEPT !.assistant_message = NoText] ELSE @[i]]]
ResponseLeftOut(result) == [result EXCEPT !.response = NoText]

\* What a failing text generation leaves of a call, but for its text: the
\* call raises only if it raises anyway, and it makes the same changes to
\* the session, stores the same turn and counters and returns the same
\* result as with a working model.
FailureKeepsTheRest ==
    /\ Last(log).raised = WithGeneration.raised
    /\ Last(log).session_data = WithGeneration.sd
    /\ ~Last(log).raised =>
        /\ ResponseLeftOut(Last(log).result) = ResponseLeftOut(WithGeneration.result)
        /\ TextLeftOut(db) = TextLeftOut(WithGeneration.db)
        /\ TurnAppended
        /\ db.conversation_count = prev.conversation_count + 1
        /\ Last(db.conversation_history).assistant_message = Last(log).result.response

\* With a working model the call returns a lesson with the notice before it.
NoticeDue ==
    /\ WithGeneration.result.response.kind = "lesson"
    /\ WithGeneration.result.response.warning

\* C17 as stated: when a model call made to generate a handler's text fails,
\* handle_user_input does not raise, the response text is the fixed apology
\* string, the handler's state changes still happen, and the turn and the
\* progress counters are still persisted.
C17_ApologyAlone ==
    (GenerationFails /\ ~WithGeneration.raised
        /\ WithGeneration.result.response.kind \in GeneratedKinds)
    => /\ FailureKeepsTheRest
       /\ ~Last(log).raised
       /\ Last(log).result.response = Plain("apology")

\* C17: when a model call made to generate a handler's text fails,
\* handle_user_input does not raise, the response text is the fixed apology
\* string, after the "didn't pass" notice where NEXT puts one before the
\* lesson, the handler's state changes still happen, and the turn and the
\* progress counters are still persisted; a handler with a fixed text
\* answers as with a working model.
C17_ApologyAfterNotice ==
    GenerationFails =>
        /\ FailureKeepsTheRest
        /\ ~Last(log).raised =>
            Last(log).result.response =
                IF WithGeneration.result.response.kind \notin GeneratedKinds
                THEN WithGeneration.result.response
                ELSE IF NoticeDue THEN WithWarning(TRUE, Plain("apology"))
                ELSE Plain("apology")

\* Text generation alone fails on a graded answer: the grade is stored and
\* the apology returned.
C17_Witness ==
    /\ GenerationFails
    /\ Last(log).query.failing = {"generate"}
    /\ Last(log).query.intent = "FEEDBACK"
    /\ Last(log).query.score = 80
    /\ Last(log).result.response = Plain("apology")
    /\ db.subtopic_quiz_scores = <<80>>
    /\ prev.subtopic_quiz_scores = <<>>
    /\ db.conversation_count = prev.conversation_count + 1

\* ----------------------------- two concurrent calls for one session id
\* handle_user_input is a coroutine: between its awaits (the model calls)
\* the other caller's code may run.  The calls to the store do not await.
RaceMessages ==
    {Msg("NEXT", -1), Msg("QUIZ", -1), Msg("FEEDBACK", 80), Msg("END", -1), NoQuery}

Done(call, out) ==
    [call EXCEPT !.pc = "done", !.sd = out.sd, !.result = out.result,
                 !.raised = out.raised]

\* Up to the first await: the session is loaded and counted in memory.
Load(c, query) ==
    /\ inflight[c].pc = "idle"
    /\ LET session_data == get_revision_session(db)
       IN IF session_data = NoDoc
          THEN LET out == handle_user_input(db, query)
               IN /\ inflight' = [inflight EXCEPT
                                    ![c] = Done([Idle EXCEPT !.query = query], out)]
                  /\ log' = Append(log, Entry("input", -1, query, out))
                  /\ last' = revision_websocket(out)
          ELSE /\ inflight' = [inflight EXCEPT ![c] =
                    [Idle EXCEPT !.pc = "loaded", !.query = query,
                                 !.sd = [session_data EXCEPT !.conversation_count = @ + 1],
                                 !.read_count = session_data.conversation_count]]
               /\ UNCHANGED <<log, last>>
    /\ UNCHANGED <<db, prev>>

\* After the classifier's answer: the handler runs up to its text generation,
\* with the writes it makes to the store as it is now.
Handle(c) ==
    /\ inflight[c].pc = "loaded"
    /\ LET call == inflight[c]
           handled == Dispatch(_detect_intent(call.query).intent, call.sd, db,
                               call.query)
       IN /\ db' = handled.db
          /\ IF handled.raised
             THEN /\ inflight' = [inflight EXCEPT ![c] = Done(call, handled)]
                  /\ log' = Append(log, Entry("input", -1, call.query, handled))
                  /\ last' = revision_websocket(handled)
             ELSE /\ inflight' = [inflight EXCEPT ![c] =
                        [call EXCEPT !.pc = "handled", !.sd = handled.sd,
                                     !.result = handled.result]]
                  /\ UNCHANGED <<log, last>>
    /\ UNCHANGED prev

\* After the generated text: the turn and the progress are saved from the
\* caller's session_data.
Save(c) ==
    /\ inflight[c].pc = "handled"
    /\ LET call == inflight[c]
           out == _save_conversation_turn(call.sd, db, call.query, call.result)
       IN /\ db' = out.db
          /\ inflight' = [inflight EXCEPT ![c] = Done(call, out)]
          /\ log' = Append(log, Entry("input", -1, call.query, out))
          /\ last' = revision_websocket(out)
    /\ UNCHANGED prev

InitRace ==
    /\ db \in {NoDoc} \cup {start_revision_session(NoDoc, topic).db : topic \in Topics}
    /\ prev = db
    /\ log = <<>>
    /\ last = NoAnswer
    /\ inflight = NoCalls

NextRace ==
    \E c \in Callers :
        \/ \E query \in RaceMessages : Load(c, query)
        \/ Handle(c)
        \/ Save(c)

SpecRace == InitRace /\ [][NextRace]_vars

\* Both calls found the session and have saved their turn.
BothSaved ==
    \A c \in Callers :
        inflight[c].pc = "done" /\ ~inflight[c].raised /\ inflight[c].read_count >= 0
SameRead == inflight["a"].read_count = inflight["b"].read_count

\* C18: two concurrent handle_user_input calls for one session id can
\* interleave their load and save steps so that an update is lost: when
\* both have finished, the stored conversation_count is 1 higher than before
\* exactly when both calls read the same conversation_count, and 2 higher
\* otherwise.
C18_LostUpdateIffSameRead ==
    BothSaved =>
        db.conversation_count =
            prev.conversation_count + (IF SameRead THEN 1 ELSE 2)

\* Both calls read the same count and the stored count has risen by 1.
C18_Witness ==
    /\ BothSaved
    /\ SameRead
    /\ db.conversation_count = prev.conversation_count + 1

\* ----------------------------------------------------- the claims C21..C30
\* A quiz for subtopic index sub was returned by an earlier call since the
\* last start.
QuizIssued(sub) ==
    \E i \in 1..(Len(log) - 1) :
        /\ InputsOnly(i, Len(log))
        /\ ReturnsStage(log[i], "quiz")
        /\ log[i].result.response = About("quiz", sub)

\* C21: a quiz grade is recorded, and the session enters READY_NEXT or RETRY,
\* only by a FEEDBACK input on a session whose stage immediately before is
\* QUIZ, and only for a subtopic for which a quiz was issued.
C21_GradeOnlyAfterQuiz ==
    (HandledAnyOnSession /\ RecordsGrade(Last(log))) =>
        /\ Last(log).query.intent = "FEEDBACK"
        /\ prev.stage = "quiz" \/ prev.current_stage = "quiz"
        /\ QuizIssued(Last(log).session_data.current_subtopic_index)

\* C22: after every handle_user_input call that returns normally, the stage
\* field of the stored session document equals the stage of the result the
\* handler returned.
C22_StoredStageIsResultStage ==
    (HandledAnyOnSession /\ ~Last(log).raised) =>
        /\ "current_stage" \in Last(log).result.keys
        /\ db.stage = Last(log).result.current_stage

\* The earlier history is kept as it was by the last operation.
EarlierTurnsKept ==
    /\ Len(db.conversation_history) >= Len(prev.conversation_history)
    /\ SubSeq(db.conversation_history, 1, Len(prev.conversation_history))
         = prev.conversation_history

\* C23: conversation_history is append-only and numbered by
\* conversation_count: the start call stores turn 0 with no user message,
\* every handle_user_input call on an existing session appends exactly one
\* turn numbered with the count after the increment, no call changes or
\* removes an earlier turn, and the turn numbers run 0, 1, 2, ... without
\* gaps or repeats.
C23_HistoryAppendOnly ==
    /\ (log # <<>> /\ Last(log).op = "start") =>
            /\ db.conversation_history # <<>>
            /\ db.conversation_history[1].turn = 0
            /\ "user_message" \notin DOMAIN db.conversation_history[1]
    /\ (log # <<>> /\ prev # NoDoc) => db # NoDoc /\ EarlierTurnsKept
    /\ HandledAnyOnSession => TurnAppended
    /\ db # NoDoc =>
            \A i \in 1..Len(db.conversation_history) :
                db.conversation_history[i].turn = i - 1

\* C24: for every topic size, a topic without subtopics included, no stage
\* handler reads the subtopic list or the completion-status list outside its
\* bounds: the handlers that index the lists (PROCEED, QUIZ, FEEDBACK, RETRY,
\* NEXT and the general question) return a response instead of raising; in
\* particular QUIZ and RETRY return on a topic without subtopics.
C24_NoReadOutsideBounds ==
    (/\ HandledAnyOnSession
     /\ Last(log).query.intent \in
            {"PROCEED", "QUIZ", "FEEDBACK", "RETRY", "NEXT", "QUESTION"}) =>
        ~Last(log).raised

\* C25: when NEXT advances to a further subtopic (next index < subtopic
\* count), the "didn't pass" notice is prepended to the next lesson exactly
\* when the completion status at the index being left is false (an entry the
\* list does not hold counts as false), and the session's
\* current_subtopic_index becomes the old index plus 1.
C25_NextAdvancesWithNotice ==
    (/\ HandledOnSession("NEXT")
     /\ prev.current_subtopic_index + 1 < Len(get_topic_subtopics(prev.topic))) =>
        LET old == prev.current_subtopic_index
            status == prev.subtopic_completion_status
            left_passed == InRange(status, old) /\ At(status, old)
        IN /\ ReturnsStage(Last(log), "learning")
           /\ Last(log).result.response =
                [About("lesson", old + 1) EXCEPT !.warning = ~left_passed]
           /\ Last(log).session_data.current_subtopic_index = old + 1

\* NEXT leaves the second subtopic, passed, after a first one not passed: the
\* third lesson comes without the notice.
C25_Witness ==
    /\ HandledOnSession("NEXT")
    /\ prev.current_subtopic_index = 1
    /\ prev.subtopic_completion_status = <<FALSE, TRUE>>
    /\ ReturnsStage(Last(log), "learning")
    /\ ~Last(log).result.response.warning
    /\ Last(log).session_data.current_subtopic_index = 2

\* The scores of the FEEDBACK inputs handled since the last start, in order.
RECURSIVE GradedScores(_, _)
GradedScores(l, n) ==
    IF n = 0 \/ l[n].op = "start" THEN <<>>
    ELSE IF IsInput(l[n], "FEEDBACK") /\ ~l[n].raised
         THEN Append(GradedScores(l, n - 1), l[n].query.score)
         ELSE GradedScores(l, n - 1)

\* C26: every quiz graded by FEEDBACK is recorded in the flat quiz_scores
\* history, so that at END final_stats.quizzes_taken equals the number of
\* FEEDBACK inputs processed in the session and average_performance equals
\* the mean of their scores (0 when no quiz was graded).
C26_FinalStatsCountGrades ==
    /\ (HandledOnSession("FEEDBACK") /\ ~Last(log).raised) =>
            db.quiz_scores = GradedScores(log, Len(log))
    /\ HandledOnSession("END") =>
            LET graded == GradedScores(log, Len(log) - 1)
            IN /\ db.final_stats # NoStats
               /\ db.final_stats.quizzes_taken = Len(graded)
               /\ db.final_stats.average_performance = Mean(graded)

\* In a session document, wherever both lists have an entry the status is
\* true exactly when the score reaches the pass mark.
StatusMatchesScore(doc) ==
    \A i \in 1..Min2(Len(doc.subtopic_completion_status),
                     Len(doc.subtopic_quiz_scores)) :
        doc.subtopic_completion_status[i] <=> doc.subtopic_quiz_scores[i] >= PassMark

\* C27: in every reachable session state, stored or held by the handler, for
\* every position i with an entry in both lists subtopic_completion_status[i]
\* is true exactly when subtopic_quiz_scores[i] >= 0.6.
C27_StatusIffScorePasses ==
    /\ db # NoDoc => StatusMatchesScore(db)
    /\ (log # <<>> /\ Last(log).session_data # NoDoc) =>
            StatusMatchesScore(Last(log).session_data)

\* A subtopic that was passed is graded again below the pass mark.
C27_Witness ==
    /\ HandledOnSession("FEEDBACK")
    /\ prev.subtopic_quiz_scores # <<>>
    /\ prev.subtopic_completion_status[1]
    /\ db.subtopic_quiz_scores[1] < PassMark
    /\ ~db.subtopic_completion_status[1]

\* The labels handle_user_input routes by name.
RoutedLabels == {"END", "PROCEED", "LEARN", "QUIZ", "FEEDBACK", "RETRY", "NEXT"}

\* The last call was a handle_user_input call on an existing session whose
\* classifier output is none of the routed labels.
HandledUnlisted ==
    /\ HandledAnyOnSession
    /\ _detect_intent(Last(log).query).intent \notin RoutedLabels

\* C28: a classifier output that is none of END, PROCEED, LEARN, QUIZ,
\* FEEDBACK, RETRY, NEXT (QUESTION, CONTINUE or arbitrary model text) goes to
\* the general-question handler, which changes nothing in the session data
\* it is given; the call stores the count and the appended turn, leaves
\* current_subtopic_index, subtopic_completion_status, subtopic_quiz_scores,
\* quiz_scores, concepts_learned and is_complete as they were, and returns
\* is_session_complete = false.
C28_UnlistedLabelOnlyAnswers ==
    HandledUnlisted =>
        /\ ReturnsStage(Last(log), "question_answered")
        /\ ~Last(log).result.is_session_complete
        /\ Last(log).session_data = [prev EXCEPT !.conversation_count = @ + 1]
        /\ db.conversation_count = prev.conversation_count + 1
        /\ TurnAppended
        /\ db.current_subtopic_index = prev.current_subtopic_index
        /\ db.subtopic_completion_status = prev.subtopic_completion_status
        /\ db.subtopic_quiz_scores = prev.subtopic_quiz_scores
        /\ db.quiz_scores = prev.quiz_scores
        /\ db.concepts_learned = prev.concepts_learned
        /\ db.is_complete = prev.is_complete
        /\ db.missing = prev.missing

\* The classifier call fails inside the wrapper: the label is the upper-cased
\* apology, which no branch names, on a session with a graded quiz.
C28_Witness ==
    /\ HandledUnlisted
    /\ _detect_intent(Last(log).query).intent = APOLOGY_UPPER
    /\ prev.subtopic_quiz_scores # <<>>
    /\ ReturnsStage(Last(log), "question_answered")

\* The fields LEARN, QUIZ and RETRY leave alone, of a session document.
ProgressOf(doc) ==
    <<doc.current_subtopic_index, doc.subtopic_completion_status,
      doc.subtopic_quiz_scores, doc.is_complete,
      doc.missing \cap ListKeys>>

\* C29: LEARN, QUIZ and RETRY on a session whose index is valid (index <
\* subtopic count) leave current_subtopic_index, subtopic_completion_status,
\* subtopic_quiz_scores and is_complete unchanged, in the stored document and
\* in the session data the handler leaves; two consecutive LEARN inputs teach
\* the same subtopic.
C29_LearnQuizRetryKeepProgress ==
    (/\ HandledAnyOnSession
     /\ Last(log).query.intent \in {"LEARN", "QUIZ", "RETRY"}
     /\ prev.current_subtopic_index < Len(get_topic_subtopics(prev.topic))) =>
        /\ ~Last(log).raised
        /\ ProgressOf(db) = ProgressOf(prev)
        /\ ProgressOf(Last(log).session_data) = ProgressOf(prev)
        /\ Last(log).query.intent = "LEARN" =>
            LET again == handle_user_input(db, Last(log).query)
            IN /\ ~again.raised
               /\ Last(log).result.response = About("lesson", prev.current_subtopic_index)
               /\ again.result.response = Last(log).result.response
               /\ again.result.sources = Last(log).result.sources
               /\ ProgressOf(again.sd) = ProgressOf(prev)

\* LEARN on the second of three subtopics, with a grade recorded for the first.
C29_Witness ==
    /\ HandledOnSession("LEARN")
    /\ prev.topic = 3
    /\ prev.current_subtopic_index = 1
    /\ prev.subtopic_quiz_scores = <<80>>
    /\ ReturnsStage(Last(log), "learning")
    /\ db.current_subtopic_index = 1

\* A rule applies to a text when one of its words occurs in it, letter case
\* ignored; the label is that of the first rule that applies.
Applies(rule, text) == \E w \in rule.words : Occurs(w, text)
FirstMatch(rules, text, default) ==
    IF \E k \in 1..Len(rules) : Applies(rules[k], text)
    THEN rules[CHOOSE k \in 1..Len(rules) :
                  /\ Applies(rules[k], text)
                  /\ \A j \in 1..(k - 1) : ~Applies(rules[j], text)].label
    ELSE default

\* The rules as documented, in the documented order.
DocumentedRules ==
    <<[label |-> "QUIZ",
        words |-> {<<"q", "u", "i", "z">>,
                   <<"t", "e", "s", "t">>}],
      [label |-> "END",
        words |-> {<<"e", "n", "d">>,
                   <<"f", "i", "n", "i", "s", "h">>,
                   <<"d", "o", "n", "e">>,
                   <<"q", "u", "i", "t">>,
                   <<"s", "t", "o", "p">>}],
      [label |-> "NEXT",
        words |-> {<<"n", "e", "x", "t">>,
                   <<"m", "o", "v", "e", " ", "o", "n">>,
                   <<"c", "o", "n", "t", "i", "n", "u", "e">>}],
      [label |-> "RETRY",
        words |-> {<<"r", "e", "t", "r", "y">>,
                   <<"a", "g", "a", "i", "n">>,
                   <<"e", "x", "p", "l", "a", "i", "n">>}],
      [label |-> "FEEDBACK",
        words |-> {<<"=">>,
                   <<"a", ")">>,
                   <<"t", "r", "u", "e">>,
                   <<"f", "a", "l", "s", "e">>}],
      [label |-> "QUESTION",
        words |-> {<<"?">>,
                   <<"w", "h", "y">>,
                   <<"w", "h", "a", "t">>,
                   <<"h", "o", "w">>,
                   <<"w", "h", "e", "n">>,
                   <<"w", "h", "e", "r", "e">>,
                   <<"w", "h", "o">>}]>>

\* The rules of the scan: PROCEED first, "check" a QUIZ word, NEXT and RETRY
\* before END, no "quit", more answer words, no QUESTION.
ScanRules ==
    <<[label |-> "PROCEED",
        words |-> {<<"y", "e", "s">>,
                   <<"r", "e", "a", "d", "y">>,
                   <<"s", "t", "a", "r", "t">>,
                   <<"p", "r", "o", "c", "e", "e", "d">>,
                   <<"b", "e", "g", "i", "n">>}],
      [label |-> "QUIZ",
        words |-> {<<"q", "u", "i", "z">>,
                   <<"t", "e", "s", "t">>,
                   <<"c", "h", "e", "c", "k">>}],
      [label |-> "NEXT",
        words |-> {<<"n", "e", "x", "t">>,
                   <<"m", "o", "v", "e", " ", "o", "n">>,
                   <<"c", "o", "n", "t", "i", "n", "u", "e">>}],
      [label |-> "RETRY",
        words |-> {<<"r", "e", "t", "r", "y">>,
                   <<"a", "g", "a", "i", "n">>,
                   <<"e", "x", "p", "l", "a", "i", "n">>}],
      [label |-> "END",
        words |-> {<<"e", "n", "d">>,
                   <<"f", "i", "n", "i", "s", "h">>,
                   <<"d", "o", "n", "e">>,
                   <<"s", "t", "o", "p">>}],
      [label |-> "FEEDBACK",
        words |-> {<<"=">>,
                   <<"a", "n", "s", "w", "e", "r">>,
                   <<"a", ")">>,
                   <<"b", ")">>,
                   <<"c", ")">>,
                   <<"t", "r", "u", "e">>,
                   <<"f", "a", "l", "s", "e">>}]>>

\* C30 as stated: the keyword fallback gives the label of the first
\* documented rule that applies, in the order QUIZ ('quiz', 'test'), END
\* ('end', 'finish', 'done', 'quit', 'stop'), NEXT ('next', 'move on',
\* 'continue'), RETRY ('retry', 'again', 'explain'), FEEDBACK ('=', 'a)',
\* 'true', 'false'), QUESTION (a question word or '?'), and LEARN or
\* CONTINUE when none applies.
C30_DocumentedOrder ==
    Called("keyword_fallback") =>
        LET label == FirstMatch(DocumentedRules, Last(log).args, "none")
        IN IF label = "none"
           THEN Last(log).result \in {"LEARN", "CONTINUE"}
           ELSE Last(log).result = label

\* C30 amended: the keyword fallback gives the label of the first rule that
\* applies, in the order PROCEED ('yes', 'ready', 'start', 'proceed',
\* 'begin'), QUIZ ('quiz', 'test', 'check'), NEXT ('next', 'move on',
\* 'continue'), RETRY ('retry', 'again', 'explain'), END ('end', 'finish',
\* 'done', 'stop'), FEEDBACK ('=', 'answer', 'a)', 'b)', 'c)', 'true',
\* 'false'), and LEARN when none applies; it never gives QUESTION.
C30_ScanOrder ==
    Called("keyword_fallback") =>
        Last(log).result = FirstMatch(ScanRules, Last(log).args, "LEARN")

\* A message with an END word and a NEXT word is labelled NEXT.
C30_Witness ==
    /\ Called("keyword_fallback")
    /\ Last(log).args = <<"I", "'", "m", " ", "d", "o", "n", "e", ",", " ", "n", "e", "x", "t">>
    /\ Last(log).result = "NEXT"

====
